---- MODULE Spec2Model ----
(***************************************************************************)
(* Model of app.py: a Streamlit page that loads customer rows from a sheet *)
(* (load_data), geocodes the rows without coordinates (geocode_missing,    *)
(* geocode_one, the rate-limited _geocode), drops coordinates outside the  *)
(* Czech bounding box, optionally writes new coordinates back to the sheet *)
(* (write_back_latlon) and renders the map (make_map).                     *)
(*                                                                         *)
(* Coordinates are integers in hundredths of a degree (49.20 is 4920).     *)
(* An optional number (pandas NaN / Python None) is the empty sequence     *)
(* <<>>, a present number v is <<v>>.  A full address is the sequence of   *)
(* its non-empty parts (the string joined with ", " in the code).          *)
(* A row key is the pair <<address, name>> that the code hashes with SHA-1 *)
(* (the hash is taken to be collision free).                               *)
(***************************************************************************)
EXTENDS Integers, Sequences, FiniteSets, TLC

\* ------------------------------------------------------------------ bounds
NumRows == 2        \* rows of the sheet
MaxRuns == 2        \* script runs (page re-runs) of one session

\* ------------------------------------------------------- program constants
MinLat == 4700      \* 47.0  (_fix_deg_cz, between(47, 55))
MaxLat == 5500      \* 55.0
MinLon == 1100      \* 11.0  (_fix_deg_cz, between(11, 25))
MaxLon == 2500      \* 25.0
LatScaleLimit == 6000   \* while abs(v) > 60
LonScaleLimit == 3000   \* while abs(v) > 30
max_retries == 2        \* RateLimiter(..., max_retries=2, ...)

NaN == <<>>
isna(x) == x = <<>>
notna(x) == x # <<>>
Abs(v) == IF v < 0 THEN -v ELSE v

\* Series.between(lo, hi): inclusive on both ends, False on NaN.
between(x, lo, hi) == notna(x) /\ lo <= x[1] /\ x[1] <= hi

\* ------------------------------------------------------------- load_data
\* A sheet cell of a coordinate column: empty, the text "nan"/"None", text
\* that is no number, or a number (already in hundredths of a degree).
EmptyCell == [kind |-> "empty", n |-> 0]
JunkCell == [kind |-> "junk", n |-> 0]
Num(n) == [kind |-> "number", n |-> n]

\* _normalize_coord: "", "None", "nan" -> None; to_numeric(errors="coerce")
\* turns what does not parse into NaN.
_normalize_coord(cell) == IF cell.kind = "number" THEN <<cell.n>> ELSE NaN

\* The while loops of _fix_deg_cz (v /= 10.0); on hundredths the division is
\* the integer one, exact for the sample values.
RECURSIVE ScaleDown(_, _)
ScaleDown(v, limit) == IF Abs(v) > limit THEN ScaleDown(v \div 10, limit) ELSE v

\* _fix_deg_cz: divide by 10 while too large, then keep only values inside
\* the Czech range.
_fix_deg_cz(val, is_lat) ==
    IF isna(val) THEN val
    ELSE IF is_lat
         THEN LET v == ScaleDown(val[1], LatScaleLimit)
              IN  IF MinLat <= v /\ v <= MaxLat THEN <<v>> ELSE NaN
         ELSE LET v == ScaleDown(val[1], LonScaleLimit)
              IN  IF MinLon <= v /\ v <= MaxLon THEN <<v>> ELSE NaN

\* The rows a sheet may hold in this model.
SampleRows ==
    { [Adres |-> "Main 1", Miasto |-> "Brno", PSC |-> "60200", Nazwa |-> "Alfa",
       lat |-> Num(500800), lon |-> Num(1442)],
      [Adres |-> "Main 1", Miasto |-> "Brno", PSC |-> "60200", Nazwa |-> "Alfa",
       lat |-> EmptyCell, lon |-> EmptyCell],
      [Adres |-> "Main 1", Miasto |-> "Brno", PSC |-> "60200", Nazwa |-> "Beta",
       lat |-> Num(17460), lon |-> Num(1442)],
      [Adres |-> "", Miasto |-> "Brno", PSC |-> "60200", Nazwa |-> "Alfa",
       lat |-> Num(4990), lon |-> JunkCell] }

Rows == 1..NumRows

\* load_data: the frame of the sheet's records with both coordinate columns
\* normalised and range-checked.
load_data(ws) ==
    [i \in DOMAIN ws |->
        [ws[i] EXCEPT !.lat = _fix_deg_cz(_normalize_coord(ws[i].lat), TRUE),
                      !.lon = _fix_deg_cz(_normalize_coord(ws[i].lon), FALSE)]]

\* ------------------------------------------------- addresses and row keys
NonEmpty(p) == p # ""

build_full_address(row) ==
    SelectSeq(<<row.Adres, row.Miasto, row.PSC, "Czechy">>, NonEmpty)

row_key(row) == <<build_full_address(row), row.Nazwa>>

Addresses == {build_full_address(r) : r \in SampleRows}

\* ------------------------------------------------------------- the geocoder
\* What Nominatim does with one HTTP request.
Timeout == [kind |-> "timeout", lat |-> 0, lon |-> 0]   \* GeocoderServiceError
OtherError == [kind |-> "error", lat |-> 0, lon |-> 0]  \* any other exception
NoMatch == [kind |-> "none", lat |-> 0, lon |-> 0]      \* geocode() returns None
Loc(la, lo) == [kind |-> "loc", lat |-> la, lon |-> lo]
Raised == [kind |-> "raise", lat |-> 0, lon |-> 0]

ProviderAnswers == {Timeout, OtherError, NoMatch, Loc(4920, 1661), Loc(4800, 2600)}
Attempts == 1..(max_retries + 1)

\* _geocode = RateLimiter(_geolocator.geocode, min_delay_seconds=1,
\* max_retries=2, swallow_exceptions=True), called from attempt j on:
\* a GeocoderServiceError is retried until max_retries retries are used up and
\* is then swallowed (None is returned); any other exception is re-raised;
\* resp[j] is the provider's answer to the j-th request.  The result carries
\* the number n of requests that were sent.
RECURSIVE RateLimiter(_, _)
RateLimiter(resp, j) ==
    IF resp[j].kind = "timeout"
    THEN IF j <= max_retries THEN RateLimiter(resp, j + 1)
         ELSE [res |-> NoMatch, n |-> j]
    ELSE IF resp[j].kind = "error" THEN [res |-> Raised, n |-> j]
    ELSE [res |-> resp[j], n |-> j]

_geocode(resp) == RateLimiter(resp, 1)

\* geocode_one without its except clause: the exception goes on.
geocode_one_reraise(r) == r

\* The try/except of geocode_one: what an exception raised inside becomes.
geocode_one_except(r) == [r EXCEPT !.res = NoMatch]

\* The body of geocode_one, run on a cache miss: [raised, value, n] where
\* value is None (<<>>) or the pair <<lat, lon>>.
geocode_one(address, resp) ==
    IF address = <<>> THEN [raised |-> FALSE, value |-> <<>>, n |-> 0]
    ELSE LET r0 == _geocode(resp)
             r == IF r0.res.kind = "raise" THEN geocode_one_except(r0) ELSE r0
         IN  IF r.res.kind = "raise"
             THEN [raised |-> TRUE, value |-> <<>>, n |-> r.n]
             ELSE IF r.res.kind = "loc"
             THEN [raised |-> FALSE, value |-> <<r.res.lat, r.res.lon>>, n |-> r.n]
             ELSE [raised |-> FALSE, value |-> <<>>, n |-> r.n]

\* geocode_one without the cache decorator.
cache_never_hit(cache, address) == FALSE

\* @st.cache_data on geocode_one: a stored return value is served without
\* running the body.
cache_hit(cache, address) == address \in DOMAIN cache

\* geocode_missing that geocodes every row.
need_every_row(df, i) == TRUE

\* geocode_missing, line 169-170: the rows to geocode, in frame order.
need(df, i) == isna(df[i].lat) \/ isna(df[i].lon)

RECURSIVE IndexList(_, _, _)
IndexList(df, i, n) ==
    IF i > n THEN <<>>
    ELSE (IF need(df, i) THEN <<i>> ELSE <<>>) \o IndexList(df, i + 1, n)

\* ------------------------------------------------------- the region filter
bad_lat(row) == notna(row.lat) /\ ~between(row.lat, MinLat, MaxLat)
bad_lon(row) == notna(row.lon) /\ ~between(row.lon, MinLon, MaxLon)

\* Lines 358-364 left out.
region_filter_skipped(df) == df

\* Lines 358-364: a coordinate outside the Czech box becomes NaN.
region_filter(df) ==
    [i \in DOMAIN df |->
        [df[i] EXCEPT !.lat = IF bad_lat(df[i]) THEN NaN ELSE @,
                      !.lon = IF bad_lon(df[i]) THEN NaN ELSE @]]

ready(df, i) == notna(df[i].lat) /\ notna(df[i].lon)

\* Lines 396-401: rows that still hold a coordinate outside the box are
\* blanked by DataFrame.where.
valid_row(row) ==
    /\ (between(row.lat, MinLat, MaxLat) \/ isna(row.lat))
    /\ (between(row.lon, MinLon, MaxLon) \/ isna(row.lon))

hard_validation(df) ==
    IF \E i \in DOMAIN df : ~valid_row(df[i])
    THEN [i \in DOMAIN df |->
            IF valid_row(df[i]) THEN df[i] ELSE [df[i] EXCEPT !.lat = NaN, !.lon = NaN]]
    ELSE df

\* make_map: dd = df.dropna(subset=["lat", "lon"]); one marker per row of dd.
make_map(df) ==
    [i \in {j \in DOMAIN df : ready(df, j)} |-> <<df[i].lat[1], df[i].lon[1]>>]

\* ---------------------------------------------------------------- write-back
\* changed_mask without orig_nan.
changed_mask_now_ok(original, updated) ==
    {i \in DOMAIN updated : notna(updated[i].lat) /\ notna(updated[i].lon)}

\* write_back_latlon, lines 203-205.
changed_mask(original, updated) ==
    {i \in DOMAIN updated :
        /\ isna(original[i].lat) \/ isna(original[i].lon)
        /\ notna(updated[i].lat) /\ notna(updated[i].lon)}

\* enumerate(updated.iterrows(), start=2): the sheet row of the k-th frame row.
sheet_row(k) == k + 1
SheetRows == {sheet_row(k) : k \in Rows}

\* write_back_latlon without the session check.
never_saved(saved, key) == FALSE

\* Line 241.
already_saved(saved, key) == key \in saved

\* The key added right after the first update_cell.
mark_saved_early(saved, key, lat_written, lon_written) ==
    IF lat_written THEN saved \cup {key} ELSE saved

\* Lines 245-247: the key is added after both update_cell calls returned.
mark_saved(saved, key, lat_written, lon_written) ==
    IF lat_written /\ lon_written THEN saved \cup {key} ELSE saved

\* The button handler without try/except.
write_back_uncaught == FALSE

\* Lines 376-383: the try/except around write_back_latlon turns any
\* exception into st.warning.
write_back_caught == TRUE

\* ------------------------------------------------------------------- state
VARIABLES
    ws,                 \* the sheet's records as read by load_data
    ENABLE_WRITE_BACK,  \* the three secrets are configured
    df_orig,            \* load_data(), cached by st.cache_data
    df_geo,             \* this run's frame (out inside geocode_missing)
    geocode_cache,      \* st.cache_data of geocode_one: address -> value
    saved_latlon_keys,  \* st.session_state["saved_latlon_keys"]
    cells,              \* values write-back put in the sheet: row -> lat, lon
    pc,                 \* where the script run is
    runs,               \* finished script runs
    GEOCODE_ENABLED,    \* the sidebar toggle in this run
    clicked,            \* the write-back button in this run
    idxs, gm_i,         \* geocode_missing: rows to geocode, loop counter
    wb_i,               \* write_back_latlon: loop counter (frame row)
    updated_rows,       \* rows written by this run's write-back
    wb_status,          \* "none", "ok" (st.success), "error" (st.warning)
    ready_count,        \* ready.sum() of line 368
    rendered,           \* the markers of this run's map (make_map)
    run_error,          \* an exception escaped the script run
    \* history variables, read by the properties only
    calls,              \* address -> invocations of _geocode
    requests,           \* address -> HTTP requests sent to the provider
    hits,               \* addresses served from the cache at least once
    attempted,          \* rows passed to geocode_one in this run, in order
    writes,             \* sheet row -> number of update_cell calls per column
    keys_at_call,       \* saved_latlon_keys when this run's write-back began
    fail_row            \* frame row at which this run's write-back failed, or 0

vars == <<ws, ENABLE_WRITE_BACK, df_orig, df_geo, geocode_cache, saved_latlon_keys,
          cells, pc, runs, GEOCODE_ENABLED, clicked, idxs, gm_i, wb_i, updated_rows,
          wb_status, ready_count, rendered, run_error, calls, requests, hits,
          attempted, writes, keys_at_call, fail_row>>

config == <<ws, ENABLE_WRITE_BACK, df_orig>>
hist_geo == <<calls, requests, hits>>
sheet_state == <<saved_latlon_keys, cells, writes>>

Init ==
    /\ ws \in [Rows -> SampleRows]
    /\ ENABLE_WRITE_BACK \in BOOLEAN
    /\ df_orig = load_data(ws)
    /\ df_geo = df_orig
    /\ geocode_cache = <<>>
    /\ saved_latlon_keys = {}
    /\ cells = [r \in SheetRows |-> [lat |-> NaN, lon |-> NaN]]
    /\ pc = "idle"
    /\ runs = 0
    /\ GEOCODE_ENABLED = FALSE
    /\ clicked = FALSE
    /\ idxs = <<>>
    /\ gm_i = 0
    /\ wb_i = 0
    /\ updated_rows = 0
    /\ wb_status = "none"
    /\ ready_count = 0
    /\ rendered = <<>>
    /\ run_error = FALSE
    /\ calls = [a \in Addresses |-> 0]
    /\ requests = [a \in Addresses |-> 0]
    /\ hits = {}
    /\ attempted = <<>>
    /\ writes = [r \in SheetRows |-> [lat |-> 0, lon |-> 0]]
    /\ keys_at_call = {}
    /\ fail_row = 0

\* A script run starts (lines 345-356 up to the loop of geocode_missing):
\* the widgets are read, df_orig comes from the cache, and geocode_missing
\* copies it and lists the rows to geocode, or df_geo is a plain copy.
RunStart(toggle, button) ==
    /\ pc \in {"idle", "done"}
    /\ runs < MaxRuns
    /\ GEOCODE_ENABLED' = toggle
    /\ clicked' = (ENABLE_WRITE_BACK /\ button)
    /\ df_geo' = df_orig
    /\ idxs' = IF toggle THEN IndexList(df_orig, 1, NumRows) ELSE <<>>
    /\ gm_i' = 1
    /\ pc' = IF idxs' # <<>> THEN "geocode" ELSE "filter"
    /\ wb_i' = 0
    /\ updated_rows' = 0
    /\ wb_status' = "none"
    /\ ready_count' = 0
    /\ rendered' = <<>>
    /\ run_error' = FALSE
    /\ attempted' = <<>>
    /\ keys_at_call' = {}
    /\ fail_row' = 0
    /\ UNCHANGED <<config, geocode_cache, sheet_state, runs, hist_geo>>

\* One iteration of the loop of geocode_missing (lines 178-185), with the
\* call of geocode_one: a cache hit returns the stored value, a miss runs the
\* body against the provider and stores what it returns.
GeocodeRow ==
    /\ pc = "geocode"
    /\ LET idx == idxs[gm_i]
           address == build_full_address(df_geo[idx])
           finish(coords) ==
               /\ df_geo' = IF coords # <<>>
                            THEN [df_geo EXCEPT ![idx].lat = <<coords[1]>>,
                                                ![idx].lon = <<coords[2]>>]
                            ELSE df_geo
               /\ gm_i' = gm_i + 1
               /\ pc' = IF gm_i = Len(idxs) THEN "filter" ELSE "geocode"
               /\ UNCHANGED <<runs, run_error>>
       IN  /\ attempted' = Append(attempted, idx)
           /\ IF cache_hit(geocode_cache, address)
              THEN /\ hits' = hits \cup {address}
                   /\ UNCHANGED <<geocode_cache, calls, requests>>
                   /\ finish(geocode_cache[address])
              ELSE \E resp \in [Attempts -> ProviderAnswers] :
                     LET r == geocode_one(address, resp)
                     IN  /\ calls' = [calls EXCEPT ![address] = @ + 1]
                         /\ requests' = [requests EXCEPT ![address] = @ + r.n]
                         /\ hits' = hits
                         /\ IF r.raised
                            THEN \* the exception ends the script run
                                 /\ run_error' = TRUE
                                 /\ pc' = "done"
                                 /\ runs' = runs + 1
                                 /\ UNCHANGED <<geocode_cache, df_geo, gm_i>>
                            ELSE /\ geocode_cache' = (address :> r.value) @@ geocode_cache
                                 /\ finish(r.value)
    /\ UNCHANGED <<config, sheet_state, GEOCODE_ENABLED, clicked, idxs, wb_i,
                   updated_rows, wb_status, ready_count, rendered, keys_at_call,
                   fail_row>>

\* Lines 357-368: coordinates outside the box are dropped and the ready rows
\* are counted; then the write-back button decides what runs next.
RegionFilter ==
    /\ pc = "filter"
    /\ df_geo' = region_filter(df_geo)
    /\ ready_count' = Cardinality({i \in Rows : ready(df_geo', i)})
    /\ pc' = IF ENABLE_WRITE_BACK /\ clicked THEN "writeback" ELSE "map"
    /\ UNCHANGED <<config, geocode_cache, sheet_state, runs, GEOCODE_ENABLED, clicked,
                   idxs, gm_i, wb_i, updated_rows, wb_status, rendered, run_error,
                   hist_geo, attempted, keys_at_call, fail_row>>

\* An exception leaves write_back_latlon at frame row k (0: before the loop):
\* the except clause of line 382 reports it, or it ends the script run.
WriteBackRaises(k) ==
    /\ fail_row' = k
    /\ wb_status' = "error"
    /\ IF write_back_caught
       THEN /\ pc' = "map"
            /\ UNCHANGED <<runs, run_error>>
       ELSE /\ pc' = "done"
            /\ runs' = runs + 1
            /\ run_error' = TRUE

\* write_back_latlon up to its loop (lines 196-233): nothing to write returns
\* 0; otherwise the authorisation and the header read succeed or raise.
WriteBackBegin ==
    /\ pc = "writeback"
    /\ keys_at_call' = saved_latlon_keys
    /\ IF changed_mask(df_orig, df_geo) = {}
       THEN /\ wb_status' = "ok"
            /\ pc' = "map"
            /\ UNCHANGED <<wb_i, fail_row, runs, run_error>>
       ELSE \E ok \in BOOLEAN :
              IF ok
              THEN /\ wb_i' = 1
                   /\ pc' = "wbloop"
                   /\ UNCHANGED <<wb_status, fail_row, runs, run_error>>
              ELSE /\ WriteBackRaises(0)
                   /\ UNCHANGED wb_i
    /\ UNCHANGED <<config, df_geo, geocode_cache, sheet_state, GEOCODE_ENABLED, clicked,
                   idxs, gm_i, updated_rows, ready_count, rendered, hist_geo, attempted>>

\* One iteration of the loop of write_back_latlon (lines 237-249) for frame
\* row wb_i, and the return after the last row.  Each update_cell succeeds
\* or raises.
WriteBackRow ==
    /\ pc = "wbloop"
    /\ LET i == wb_i
           r == sheet_row(i)
           key == row_key(df_geo[i])
           next_row ==
               /\ wb_i' = i + 1
               /\ pc' = IF i = NumRows THEN "map" ELSE "wbloop"
               /\ wb_status' = IF i = NumRows THEN "ok" ELSE wb_status
               /\ UNCHANGED <<fail_row, runs, run_error>>
       IN  IF i \notin changed_mask(df_orig, df_geo)
              \/ already_saved(saved_latlon_keys, key)
           THEN /\ next_row
                /\ UNCHANGED <<sheet_state, updated_rows>>
           ELSE \E lat_ok \in BOOLEAN, lon_ok \in BOOLEAN :
                  /\ lat_ok \/ ~lon_ok
                  /\ cells' = [cells EXCEPT
                                 ![r].lat = IF lat_ok THEN df_geo[i].lat ELSE @,
                                 ![r].lon = IF lon_ok THEN df_geo[i].lon ELSE @]
                  /\ writes' = [writes EXCEPT
                                 ![r].lat = IF lat_ok THEN @ + 1 ELSE @,
                                 ![r].lon = IF lon_ok THEN @ + 1 ELSE @]
                  /\ saved_latlon_keys' =
                         mark_saved(saved_latlon_keys, key, lat_ok, lon_ok)
                  /\ IF lat_ok /\ lon_ok
                     THEN /\ updated_rows' = updated_rows + 1
                          /\ next_row
                     ELSE /\ WriteBackRaises(i)
                          /\ UNCHANGED <<wb_i, updated_rows>>
    /\ UNCHANGED <<config, df_geo, geocode_cache, GEOCODE_ENABLED, clicked, idxs, gm_i,
                   ready_count, rendered, hist_geo, attempted, keys_at_call>>

\* Lines 392-431: the hard validation, make_map and the summary; the script
\* run ends.
RenderMap ==
    /\ pc = "map"
    /\ df_geo' = hard_validation(df_geo)
    /\ rendered' = make_map(df_geo')
    /\ pc' = "done"
    /\ runs' = runs + 1
    /\ UNCHANGED <<config, geocode_cache, sheet_state, GEOCODE_ENABLED, clicked, idxs,
                   gm_i, wb_i, updated_rows, wb_status, ready_count, run_error,
                   hist_geo, attempted, keys_at_call, fail_row>>

Next ==
    \/ \E toggle \in BOOLEAN, button \in BOOLEAN : RunStart(toggle, button)
    \/ GeocodeRow
    \/ RegionFilter
    \/ WriteBackBegin
    \/ WriteBackRow
    \/ RenderMap

Spec == Init /\ [][Next]_vars

\* The script is single-threaded and runs to completion: a started run takes
\* its next step.  Only the start of a run waits for the user.
RunStep == GeocodeRow \/ RegionFilter \/ WriteBackBegin \/ WriteBackRow \/ RenderMap

FairSpec == Spec /\ WF_vars(RunStep)

\* ------------------------------------------------------------- properties
InRegion(la, lo) == MinLat <= la /\ la <= MaxLat /\ MinLon <= lo /\ lo <= MaxLon
WasAttempted(i) == \E k \in 1..Len(attempted) : attempted[k] = i
Address(i) == build_full_address(df_orig[i])
AfterFilter == pc \in {"writeback", "wbloop", "map", "done"} /\ ~run_error
Written(r) == writes[r].lat >= 1 /\ writes[r].lon >= 1

\* The frame of a run as a function of the loaded frame, the toggle and the
\* geocoding results alone.
ExpectedGeo ==
    region_filter(
        [i \in Rows |->
            IF /\ GEOCODE_ENABLED
               /\ isna(df_orig[i].lat) \/ isna(df_orig[i].lon)
               /\ Address(i) \in DOMAIN geocode_cache
               /\ geocode_cache[Address(i)] # <<>>
            THEN [df_orig[i] EXCEPT !.lat = <<geocode_cache[Address(i)][1]>>,
                                    !.lon = <<geocode_cache[Address(i)][2]>>]
            ELSE df_orig[i]])

\* C1 (skip invariant): a row that holds both coordinates inside the region
\* after loading is never passed to geocode_one, keeps its coordinates in
\* df_geo, and is a marker of the rendered map with the coordinates it had.
C1_SkipInvariant ==
    \A i \in Rows :
        (/\ between(df_orig[i].lat, MinLat, MaxLat)
         /\ between(df_orig[i].lon, MinLon, MaxLon))
        => /\ ~WasAttempted(i)
           /\ df_geo[i].lat = df_orig[i].lat /\ df_geo[i].lon = df_orig[i].lon
           /\ (pc = "done" /\ ~run_error) =>
                  /\ i \in DOMAIN rendered
                  /\ rendered[i] = <<df_orig[i].lat[1], df_orig[i].lon[1]>>

\* A run finished with geocoding on, one row had loaded coordinates and
\* another row was geocoded and is on the map.
C1_Witness ==
    /\ pc = "done" /\ GEOCODE_ENABLED
    /\ \E i, j \in Rows :
          /\ ready(df_orig, i)
          /\ WasAttempted(j) /\ j \in DOMAIN rendered /\ i \in DOMAIN rendered

\* The coordinate a row ends a run with is outside the region: the one the
\* geocoder returned for it in this run, or else the one read from the sheet.
GeocodedOutside(i) ==
    /\ WasAttempted(i)
    /\ Address(i) \in DOMAIN geocode_cache
    /\ geocode_cache[Address(i)] # <<>>
    /\ ~InRegion(geocode_cache[Address(i)][1], geocode_cache[Address(i)][2])

LoadedOutside(i) ==
    /\ \/ notna(_normalize_coord(ws[i].lat)) /\ isna(df_orig[i].lat)
       \/ notna(_normalize_coord(ws[i].lon)) /\ isna(df_orig[i].lon)
    /\ ~(/\ WasAttempted(i)
         /\ Address(i) \in DOMAIN geocode_cache
         /\ geocode_cache[Address(i)] # <<>>)

\* C2 (validity filter): after the region filter every row with both
\* coordinates has them inside the region, for every provider answer; every
\* marker of the map is inside the region; a row whose geocoded or loaded
\* coordinate is outside the region is no marker and is among the rows
\* counted as not ready, and no error is raised.
C2_ValidityFilter ==
    /\ AfterFilter =>
          \A i \in Rows :
              /\ ready(df_geo, i) => InRegion(df_geo[i].lat[1], df_geo[i].lon[1])
              /\ (GeocodedOutside(i) \/ LoadedOutside(i)) => ~ready(df_geo, i)
    /\ AfterFilter => ready_count = Cardinality({i \in Rows : ready(df_geo, i)})
    /\ (pc = "done" /\ ~run_error) =>
          /\ \A i \in DOMAIN rendered : InRegion(rendered[i][1], rendered[i][2])
          /\ \A i \in Rows :
                (GeocodedOutside(i) \/ LoadedOutside(i)) => i \notin DOMAIN rendered
          /\ NumRows - ready_count = Cardinality(Rows \ DOMAIN rendered)
    /\ (pc \in {"filter", "geocode"} \/ GEOCODE_ENABLED) => ~run_error

\* A run finished in which the geocoder answered outside the region for one
\* row and another row was read from the sheet with a coordinate outside.
C2_Witness ==
    /\ pc = "done" /\ ~run_error
    /\ \E i, j \in Rows : GeocodedOutside(i) /\ LoadedOutside(j)

\* C3 as claimed (cache correctness): an address resolved in a run costs
\* exactly one outbound provider request, however often it is resolved.
C3_OneProviderRequest ==
    \A a \in Addresses :
        /\ requests[a] <= 1
        /\ a \in DOMAIN geocode_cache => requests[a] = 1

\* C3 as amended: an address is handed to _geocode exactly once, which sends
\* at most 1 + max_retries provider requests; resolving it again is served
\* from the cache and sends nothing.
C3_OneGeocodeInvocation ==
    \A a \in Addresses :
        /\ calls[a] <= 1
        /\ requests[a] <= 1 + max_retries
        /\ a \in DOMAIN geocode_cache <=> calls[a] = 1
        /\ a \in DOMAIN geocode_cache => requests[a] >= 1
        /\ a \in hits => a \in DOMAIN geocode_cache

\* An address whose first resolution failed after all retries was resolved
\* again and served from the cache.
C3_Witness ==
    \E a \in Addresses :
        /\ a \in hits
        /\ requests[a] = 1 + max_retries
        /\ geocode_cache[a] = <<>>

\* C4 as claimed (idempotent write-back): no cell of a row is written more
\* than once in a session.
C4_CellsWrittenAtMostOnce ==
    \A r \in SheetRows : writes[r].lat <= 1 /\ writes[r].lon <= 1

\* C4 as amended: once both cells of a row have been written, no later
\* write-back or re-run writes a cell of that row again.
C4_WrittenRowNotRewritten ==
    [][\A r \in SheetRows : Written(r) => writes'[r] = writes[r]]_vars

\* A second write-back ran over a row written by the first one and skipped it.
C4_Witness ==
    /\ pc = "done" /\ runs = 2 /\ wb_status = "ok" /\ updated_rows = 0
    /\ keys_at_call # {}
    /\ \E i \in changed_mask(df_orig, df_geo) :
          /\ row_key(df_geo[i]) \in keys_at_call
          /\ writes[sheet_row(i)] = [lat |-> 1, lon |-> 1]

\* C5 (delta correctness): a step that writes a cell of a row writes a row
\* that lacked lat or lon in the loaded frame and has both in df_geo, and the
\* value written is the one of df_geo; a row loaded with both coordinates is
\* never written.
C5_DeltaCorrectness ==
    [][\A i \in Rows :
          writes'[sheet_row(i)] # writes[sheet_row(i)] =>
              /\ isna(df_orig[i].lat) \/ isna(df_orig[i].lon)
              /\ notna(df_geo[i].lat) /\ notna(df_geo[i].lon)
              /\ cells'[sheet_row(i)].lat = df_geo[i].lat
              /\ writes'[sheet_row(i)].lon # writes[sheet_row(i)].lon =>
                     cells'[sheet_row(i)].lon = df_geo[i].lon]_vars

\* A write-back returned after writing one row while another row, loaded
\* with both coordinates, was left alone.
C5_Witness ==
    /\ wb_status = "ok" /\ updated_rows = 1
    /\ \E i, j \in Rows :
          /\ ready(df_orig, i) /\ writes[sheet_row(i)] = [lat |-> 0, lon |-> 0]
          /\ Written(sheet_row(j))

\* C6 (batch cap): when geocode_missing returns with N rows needing
\* resolution, a cap C < N held it to the first C of them.
C6_BatchCap ==
    (pc = "filter" /\ GEOCODE_ENABLED /\ Len(idxs) > 0) =>
        \E C \in 0..(Len(idxs) - 1) : attempted = SubSeq(idxs, 1, C)

\* C7 (failure isolation), the state part: no provider failure ends the run
\* with an error; the rows needing resolution are attempted in input order,
\* all of them by the time geocode_missing returns; a row whose lookup failed
\* keeps its loaded (incomplete) coordinates and a row whose lookup succeeded
\* holds the coordinate found.
C7_Isolation ==
    /\ (pc = "geocode" \/ GEOCODE_ENABLED) => ~run_error
    /\ pc = "geocode" => attempted = SubSeq(idxs, 1, gm_i - 1)
    /\ (pc = "filter" /\ GEOCODE_ENABLED) =>
          /\ attempted = IndexList(df_orig, 1, NumRows)
          /\ \A i \in Rows :
                (isna(df_orig[i].lat) \/ isna(df_orig[i].lon)) =>
                    /\ Address(i) \in DOMAIN geocode_cache
                    /\ IF geocode_cache[Address(i)] = <<>>
                       THEN df_geo[i] = df_orig[i] /\ ~ready(df_geo, i)
                       ELSE /\ df_geo[i].lat = <<geocode_cache[Address(i)][1]>>
                            /\ df_geo[i].lon = <<geocode_cache[Address(i)][2]>>

\* C7 (failure isolation): the state part, and geocode_missing returns
\* whatever the provider does.
C7_FailureIsolation ==
    /\ []C7_Isolation
    /\ (pc = "geocode") ~> (pc = "filter")

\* geocode_missing returned after a lookup that failed on every retry for
\* one row and a lookup that succeeded for a later row.
C7_Witness ==
    /\ pc = "filter" /\ Len(attempted) >= 2
    /\ \E i, j \in Rows :
          /\ i < j /\ WasAttempted(i) /\ WasAttempted(j)
          /\ geocode_cache[Address(i)] = <<>>
          /\ requests[Address(i)] = 1 + max_retries
          /\ geocode_cache[Address(j)] # <<>>
          /\ ready(df_geo, j)

\* C8 (persistent-store error): after a write-back that raised, at any
\* point, the run goes on without error, df_geo is the frame the run had
\* without write-back, and the map shows exactly its ready rows.
C8_WriteBackErrorHandled ==
    /\ wb_status = "error" =>
          /\ ~run_error
          /\ pc \in {"map", "done"}
          /\ df_geo = ExpectedGeo
    /\ (wb_status = "error" /\ pc = "done") => rendered = make_map(ExpectedGeo)

\* A write-back failed between the two cell writes of a row and the map
\* was rendered with markers.
C8_Witness ==
    /\ pc = "done" /\ wb_status = "error" /\ fail_row > 0
    /\ writes[sheet_row(fail_row)].lat > writes[sheet_row(fail_row)].lon
    /\ rendered # <<>>

\* C9 (write-back completeness): after a write-back that returned without
\* error in a session with no saved key before it, every row of the delta
\* holds its coordinates in its own sheet row.
C9_WriteBackComplete ==
    (clicked /\ wb_status = "ok" /\ keys_at_call = {} /\ pc \in {"map", "done"}) =>
        \A i \in changed_mask(df_orig, df_geo) :
            /\ cells[sheet_row(i)].lat = df_geo[i].lat
            /\ cells[sheet_row(i)].lon = df_geo[i].lon

\* C10 (persisted-key invariant), the state part: a saved key is the key of
\* a row whose two cells were written, and a row with its lat cell written
\* and its lon cell not is not saved.
C10_SavedMeansWritten ==
    /\ \A k \in saved_latlon_keys :
          \E i \in Rows : row_key(df_orig[i]) = k /\ Written(sheet_row(i))
    /\ \A i \in Rows :
          (writes[sheet_row(i)].lat >= 1 /\ writes[sheet_row(i)].lon = 0) =>
              row_key(df_orig[i]) \notin saved_latlon_keys

\* C10 (persisted-key invariant): the state part, and a delta row left with
\* only its lat cell written is written again when the loop of a later
\* write-back reaches it.
C10_PersistedKey ==
    /\ []C10_SavedMeansWritten
    /\ [][\A i \in Rows :
            (/\ pc = "wbloop" /\ wb_i = i
             /\ i \in changed_mask(df_orig, df_geo)
             /\ writes[sheet_row(i)].lat >= 1 /\ writes[sheet_row(i)].lon = 0)
            => \/ writes'[sheet_row(i)].lat = writes[sheet_row(i)].lat + 1
               \/ fail_row' = i]_vars

\* A row whose lon write failed was written again, both cells, by the next
\* write-back and is now saved.
C10_Witness ==
    \E i \in Rows :
        /\ writes[sheet_row(i)] = [lat |-> 2, lon |-> 1]
        /\ row_key(df_orig[i]) \in saved_latlon_keys

====
